---- MODULE Spec2Model ----
(***************************************************************************)
(* Model of the chat widget in src/script.js: the session state            *)
(* (isSending, userContext, messages), the DOM the script drives, the      *)
(* submit handler up to its await, and the continuation that runs when the *)
(* Worker call settles.                                                    *)
(*                                                                         *)
(* Text is a sequence of one-character strings, so that trim(), the name   *)
(* patterns and string concatenation are computed, not assumed.            *)
(***************************************************************************)
EXTENDS FiniteSets, Integers, Sequences, TLC

VARIABLES
    isSending,      \* script.js:21
    userContext,    \* script.js:24-27  [name, pastQuestions]
    messages,       \* script.js:40-42  the running transcript
    inputValue,     \* userInput.value
    inputDisabled,  \* userInput.disabled
    sendDisabled,   \* sendBtn.disabled
    inputFocused,   \* whether userInput has the focus
    chatWindow,     \* children of #chatWindow, in document order
    pending,        \* Worker calls awaited by a suspended handler, with their payload
    lastEvent,      \* history: what the last handler step did and what it logged
    nSubmitsIdle,   \* history: submit events that arrived Idle with non-blank input
    nCalls,         \* history: fetch() invocations
    nFailures,      \* history: Worker calls that settled with an error
    probeIn,        \* SpecTrim: the arguments a function was applied to (<<>> if none)
    probeOut        \* SpecTrim: what it returned

vars == <<isSending, userContext, messages, inputValue, inputDisabled, sendDisabled,
          inputFocused, chatWindow, pending, lastEvent, nSubmitsIdle,
          nCalls, nFailures, probeIn, probeOut>>

-----------------------------------------------------------------------------
(* Bounds of the model *)

\* accepted submits in a run of Spec (every input, every Worker response)
MaxSubmits == 3
\* accepted submits in a run of SpecLong (long session, reaches both trims)
MaxLongSubmits == 24
\* failed Worker calls in a run of SpecLong
MaxLongFailures == 2
\* accepted submits in a run of SpecUIFault / SpecLive
MaxFaultSubmits == 2

-----------------------------------------------------------------------------
(* Text *)

\* JS null and undefined: texts no character sequence can equal
Null == <<"null">>
Undefined == <<"undefined">>

\* JS truthiness of a string-or-null/undefined value
Truthy(v) == v # Null /\ v # Undefined /\ v # <<>>

UpperAZ == <<"A","B","C","D","E","F","G","H","I","J","K","L","M",
             "N","O","P","Q","R","S","T","U","V","W","X","Y","Z">>
LowerAZ == <<"a","b","c","d","e","f","g","h","i","j","k","l","m",
             "n","o","p","q","r","s","t","u","v","w","x","y","z">>
Digits == <<"0","1","2","3","4","5","6","7","8","9">>

Range(s) == { s[i] : i \in DOMAIN s }

\* A character outside ASCII, and the vertical tab, is written as the token of
\* its code point: "U+00E9" is the one character e-acute, "U+000B" is \v.

\* the characters String.prototype.trim removes and the regex class \s matches
\* (WhiteSpace and LineTerminator of ECMAScript): \t \n \v \f \r, the space,
\* the no-break space, the Unicode space separators, the line and paragraph
\* separators and the byte order mark
WhiteSpace ==
    {"\t", "\n", "U+000B", "\f", "\r", " ", "U+00A0",
     "U+1680", "U+2000", "U+2001", "U+2002", "U+2003", "U+2004", "U+2005", "U+2006",
     "U+2007", "U+2008", "U+2009", "U+200A", "U+2028", "U+2029", "U+202F", "U+205F",
     "U+3000", "U+FEFF"}

\* String.prototype.trim (script.js:55, script.js:197)
JsTrimIdentity(s) == s
JsTrim(s) ==
    LET idx == { i \in DOMAIN s : s[i] \notin WhiteSpace }
    IN  IF idx = {} THEN <<>>
        ELSE LET lo == CHOOSE i \in idx : \A j \in idx : i <= j
                 hi == CHOOSE i \in idx : \A j \in idx : j <= i
             IN  SubSeq(s, lo, hi)

\* case folding done by the /i flag
ToLower(c) ==
    IF \E i \in DOMAIN UpperAZ : UpperAZ[i] = c
    THEN LowerAZ[CHOOSE i \in DOMAIN UpperAZ : UpperAZ[i] = c]
    ELSE c

\* the capture class [A-Za-z<U+00C0>-<U+00D6><U+00D8>-<U+00F6><U+00F8>-<U+00FF>' -]
\* under /i (script.js:188-191).  The three ranges leave out the multiplication
\* sign U+00D7 and the division sign U+00F7; /i adds U+0178, the upper case of
\* U+00FF, and nothing else outside ASCII.
Latin1Letters ==
    {"U+00C0", "U+00C1", "U+00C2", "U+00C3", "U+00C4", "U+00C5", "U+00C6", "U+00C7",
     "U+00C8", "U+00C9", "U+00CA", "U+00CB", "U+00CC", "U+00CD", "U+00CE", "U+00CF",
     "U+00D0", "U+00D1", "U+00D2", "U+00D3", "U+00D4", "U+00D5", "U+00D6", "U+00D8",
     "U+00D9", "U+00DA", "U+00DB", "U+00DC", "U+00DD", "U+00DE", "U+00DF", "U+00E0",
     "U+00E1", "U+00E2", "U+00E3", "U+00E4", "U+00E5", "U+00E6", "U+00E7", "U+00E8",
     "U+00E9", "U+00EA", "U+00EB", "U+00EC", "U+00ED", "U+00EE", "U+00EF", "U+00F0",
     "U+00F1", "U+00F2", "U+00F3", "U+00F4", "U+00F5", "U+00F6", "U+00F8", "U+00F9",
     "U+00FA", "U+00FB", "U+00FC", "U+00FD", "U+00FE", "U+00FF", "U+0178"}
NameClass == Range(UpperAZ) \cup Range(LowerAZ) \cup Latin1Letters \cup {"'", " ", "-"}
\* \w, which decides \b
WordChar == Range(UpperAZ) \cup Range(LowerAZ) \cup Range(Digits) \cup {"_"}

\* the literal prefixes of the four patterns, in the order of script.js:187-192;
\* wb: the pattern begins with \b
NamePatterns ==
    << [lit |-> <<"m","y"," ","n","a","m","e"," ","i","s">>, wb |-> FALSE],
       [lit |-> <<"i"," ","a","m">>,                          wb |-> TRUE],
       [lit |-> <<"i","'","m">>,                              wb |-> TRUE],
       [lit |-> <<"i","m">>,                                  wb |-> TRUE] >>

\* the literal lit (lower case) matches s at position p, ignoring case
MatchLit(s, p, lit) ==
    /\ p + Len(lit) - 1 <= Len(s)
    /\ \A k \in DOMAIN lit : ToLower(s[p + k - 1]) = lit[k]

\* \b before the word character at position p
WordBoundaryAt(s, p) == p = 1 \/ s[p - 1] \notin WordChar

\* length of the longest run of characters of set cls starting at position p
RunLen(s, p, cls) ==
    LET ok(n) == \A k \in p .. (p + n - 1) : s[k] \in cls
        ns == { n \in 0 .. (Len(s) - p + 1) : ok(n) }
    IN  CHOOSE n \in ns : \A m \in ns : m <= n

\* <lit>\s+([class]{2,}) tried at start position p: the capture, or Undefined.
\* \s+ is greedy and gives characters back until the class can take two.
CaptureAt(s, p, pat) ==
    IF ~ MatchLit(s, p, pat.lit) \/ (pat.wb /\ ~ WordBoundaryAt(s, p)) THEN Undefined
    ELSE LET q  == p + Len(pat.lit)
             w  == RunLen(s, q, WhiteSpace)
             ks == { k \in 1 .. w : RunLen(s, q + k, NameClass) >= 2 }
         IN  IF ks = {} THEN Undefined
             ELSE LET k == CHOOSE k \in ks : \A j \in ks : j <= k
                  IN  SubSeq(s, q + k, q + k + RunLen(s, q + k, NameClass) - 1)

\* message.match(re)[1] for one pattern: the leftmost match wins (script.js:195)
MatchCapture(s, pat) ==
    LET ps == { p \in DOMAIN s : CaptureAt(s, p, pat) # Undefined }
    IN  IF ps = {} THEN Undefined
        ELSE CaptureAt(s, CHOOSE p \in ps : \A r \in ps : p <= r, pat)

\* script.js:184-201: the new value of userContext.name
detectAndStoreNameNoGuard(name, message) ==
    LET hits == { i \in DOMAIN NamePatterns : Truthy(MatchCapture(message, NamePatterns[i])) }
    IN  IF hits = {} THEN name
        ELSE JsTrim(MatchCapture(message, NamePatterns[CHOOSE i \in hits : \A j \in hits : i <= j]))
detectAndStoreName(name, message) ==
    IF Truthy(name) THEN name
    ELSE LET hits == { i \in DOMAIN NamePatterns :
                         Truthy(MatchCapture(message, NamePatterns[i])) }
         IN  IF hits = {} THEN name
             ELSE JsTrim(MatchCapture(message,
                           NamePatterns[CHOOSE i \in hits : \A j \in hits : i <= j]))


-----------------------------------------------------------------------------
(* Fixed texts.  These three are only stored and compared, never scanned, so  *)
(* each is kept as a single-token text (non-ASCII characters transliterated). *)

\* script.js:30-34
BASE_SYSTEM_PROMPT == <<"You are L'Oreal's virtual product advisor. [...]">>
\* script.js:45
GREETING == <<"Hi! I'm your L'Oreal product advisor. Ask me about routines, ingredients, or which product fits your needs.">>
\* script.js:89
FALLBACK == <<"Sorry, I'm having trouble answering right now. Please try again.">>

\* script.js:158, 161, 165, 166, 230, 241
TxtUsersName == <<"U","s","e","r","'","s"," ","n","a","m","e",":"," ">>
TxtPreviously == <<"U","s","e","r"," ","p","r","e","v","i","o","u","s","l","y"," ","a","s","k","e","d"," ","a","b","o","u","t",":"," ">>
TxtContext == <<"C","o","n","v","e","r","s","a","t","i","o","n"," ","c","o","n","t","e","x","t",":"," ">>
TxtNoneYet == <<"(","n","o","n","e"," ","y","e","t",")">>
TxtHTTP == <<"H","T","T","P"," ">>
TxtUnexpectedShape == <<"Unexpected response shape from Worker">>

-----------------------------------------------------------------------------
(* Arrays and strings *)

\* Array.prototype.slice(-n) for n >= 0: the last n elements; slice(-0) is slice(0)
SliceLast(a, n) ==
    IF n = 0 \/ n >= Len(a) THEN a ELSE SubSeq(a, Len(a) - n + 1, Len(a))

\* Array.prototype.slice(1)
SliceFrom1(a) == SubSeq(a, 2, Len(a))

\* Array.prototype.join(sep) on an array of texts
RECURSIVE Join(_, _)
Join(a, sep) ==
    IF a = <<>> THEN <<>>
    ELSE IF Len(a) = 1 THEN a[1]
    ELSE a[1] \o sep \o Join(Tail(a), sep)

\* String(n) for a natural number n
RECURSIVE NatToText(_)
NatToText(n) ==
    IF n < 10 THEN <<Digits[n + 1]>>
    ELSE NatToText(n \div 10) \o <<Digits[(n % 10) + 1]>>

-----------------------------------------------------------------------------
(* The DOM helpers, script.js:124-149, as functions of #chatWindow's children *)

\* script.js:124-130
appendMessage(cw, role, text) ==
    Append(cw, [cls |-> IF role = "user" THEN "user" ELSE "ai", id |-> "", text |-> text])

\* script.js:132-144
showTypingBubble(cw) ==
    IF \E i \in DOMAIN cw : cw[i].id = "typingBubble" THEN cw
    ELSE Append(cw, [cls |-> "ai typing-bubble", id |-> "typingBubble", text |-> <<>>])

\* script.js:146-149: getElementById finds the first such element
hideTypingBubble(cw) ==
    LET ids == { i \in DOMAIN cw : cw[i].id = "typingBubble" }
    IN  IF ids = {} THEN cw
        ELSE LET f == CHOOSE i \in ids : \A j \in ids : i <= j
             IN  SubSeq(cw, 1, f - 1) \o SubSeq(cw, f + 1, Len(cw))

-----------------------------------------------------------------------------
(* Transcript and context *)

Msg(role, content) == [role |-> role, content |-> content]

\* script.js:206 (the default value of the parameter maxMessages)
DefaultMaxMessages == 40

\* script.js:208-211: the new value of messages
trimConversationNotAssigned(msgs, maxMessages) == msgs
trimConversationDropsSystem(msgs, maxMessages) ==
    IF Len(msgs) > maxMessages THEN SliceLast(msgs, maxMessages) ELSE msgs
trimConversationCapped(msgs, maxMessages) ==
    IF Len(msgs) > maxMessages
    THEN <<msgs[1]>> \o SubSeq(msgs, Len(msgs) - maxMessages + 2, Len(msgs))
    ELSE msgs
trimConversationAtMax(msgs, maxMessages) ==
    IF Len(msgs) >= maxMessages
    THEN <<msgs[1]>> \o SliceLast(msgs, maxMessages)
    ELSE msgs
trimConversation(msgs, maxMessages) ==
    IF Len(msgs) > maxMessages
    THEN <<msgs[1]>> \o SliceLast(msgs, maxMessages)
    ELSE msgs

\* script.js:214-216: the new value of userContext.pastQuestions
trimPastQuestionsKeeps20(pq) ==
    IF Len(pq) > 20 THEN SliceLast(pq, 20) ELSE pq
trimPastQuestions(pq) ==
    IF Len(pq) > 20 THEN SliceLast(pq, 10) ELSE pq

\* script.js:156-166: contextBlock
contextBlockSkipsLatest(uc) ==
    LET earlier == SubSeq(uc.pastQuestions, 1, Len(uc.pastQuestions) - 1)
        parts == (IF Truthy(uc.name)
                  THEN << TxtUsersName \o uc.name \o <<".">> >> ELSE <<>>)
                 \o
                 (IF Len(earlier) # 0
                  THEN << TxtPreviously \o Join(earlier, <<";"," ">>) \o <<".">> >>
                  ELSE <<>>)
    IN  IF Len(parts) # 0 THEN TxtContext \o Join(parts, <<" ">>)
        ELSE TxtContext \o TxtNoneYet
contextBlockQuestionsFirst(uc) ==
    LET parts == (IF Len(uc.pastQuestions) # 0
                  THEN << TxtPreviously \o Join(uc.pastQuestions, <<";"," ">>) \o <<".">> >>
                  ELSE <<>>)
                 \o
                 (IF Truthy(uc.name)
                  THEN << TxtUsersName \o uc.name \o <<".">> >> ELSE <<>>)
    IN  IF Len(parts) # 0 THEN TxtContext \o Join(parts, <<" ">>)
        ELSE TxtContext \o TxtNoneYet
contextBlock(uc) ==
    LET parts == (IF Truthy(uc.name)
                  THEN << TxtUsersName \o uc.name \o <<".">> >> ELSE <<>>)
                 \o
                 (IF Len(uc.pastQuestions) # 0
                  THEN << TxtPreviously \o Join(uc.pastQuestions, <<";"," ">>) \o <<".">> >>
                  ELSE <<>>)
    IN  IF Len(parts) # 0 THEN TxtContext \o Join(parts, <<" ">>)
        ELSE TxtContext \o TxtNoneYet

\* script.js:155-177: the array the function returns
buildMessagesWithContextKeepsBase(msgs, uc) ==
    << msgs[1], Msg("system", contextBlock(uc)) >> \o msgs
buildMessagesWithContext(msgs, uc) ==
    << msgs[1], Msg("system", contextBlock(uc)) >> \o SliceFrom1(msgs)

\* script.js:155-177: the globals once the function has returned; it reads
\* messages and userContext through slice, join and spread and writes neither
stateAfterBuildInserts(msgs, uc) ==
    [messages |-> buildMessagesWithContext(msgs, uc), userContext |-> uc]
stateAfterBuild(msgs, uc) ==
    [messages |-> msgs, userContext |-> uc]


-----------------------------------------------------------------------------
(* The Worker client, script.js:220-242.  A response is                      *)
(*   net    : fetch() resolved (FALSE: it rejected, a transport error)       *)
(*   ok     : res.ok, with status the HTTP status                            *)
(*   json   : the body parses as JSON (FALSE: res.json() rejects)            *)
(*   error, content, reply : data?.error, data?.choices?.[0]?.message?.content*)
(*            and data?.reply, Undefined where the body has no such member   *)

Response(net, ok, status, json, error, content, reply) ==
    [net |-> net, ok |-> ok, status |-> status, json |-> json,
     error |-> error, content |-> content, reply |-> reply]

Returned(text) == [thrown |-> FALSE, value |-> text]
Thrown(text) == [thrown |-> TRUE, value |-> text]

TxtFailedToFetch == <<"TypeError: Failed to fetch">>
TxtSyntaxError == <<"SyntaxError: Unexpected token in JSON">>

\* script.js:220-242: what the awaited call returns or throws
getOpenAIReplyTestsPresence(res) ==
    IF ~ res.net THEN Thrown(TxtFailedToFetch)
    ELSE IF ~ res.json THEN Thrown(TxtSyntaxError)
    ELSE IF ~ res.ok
         THEN Thrown(IF Truthy(res.error) THEN res.error
                     ELSE TxtHTTP \o NatToText(res.status))
    ELSE IF res.content # Undefined THEN Returned(res.content)
    ELSE IF res.reply # Undefined THEN Returned(res.reply)
    ELSE Thrown(TxtUnexpectedShape)
getOpenAIReply(res) ==
    IF ~ res.net THEN Thrown(TxtFailedToFetch)                       \* :221
    ELSE IF ~ res.json THEN Thrown(TxtSyntaxError)                   \* :227
    ELSE IF ~ res.ok                                                 \* :229-231
         THEN Thrown(IF Truthy(res.error) THEN res.error
                     ELSE TxtHTTP \o NatToText(res.status))
    ELSE IF Truthy(res.content) THEN Returned(res.content)           \* :234-236
    ELSE IF Truthy(res.reply) THEN Returned(res.reply)               \* :239
    ELSE Thrown(TxtUnexpectedShape)                                  \* :241

-----------------------------------------------------------------------------
(* The session *)

Event(kind, logged, rejected) == [kind |-> kind, logged |-> logged, rejected |-> rejected]

\* script.js:21-45: the state once the script has loaded
Init ==
    /\ isSending = FALSE
    /\ userContext = [name |-> Null, pastQuestions |-> <<>>]
    /\ messages = << Msg("system", BASE_SYSTEM_PROMPT) >>
    /\ inputValue = <<>>
    /\ inputDisabled = FALSE
    /\ sendDisabled = FALSE
    /\ inputFocused = FALSE
    /\ chatWindow = appendMessage(<<>>, "ai", GREETING)
    /\ pending = <<>>
    /\ lastEvent = Event("load", Undefined, FALSE)
    /\ nSubmitsIdle = 0
    /\ nCalls = 0
    /\ nFailures = 0
    /\ probeIn = <<>>
    /\ probeOut = <<>>

\* a text that is empty or all white space
IsBlank(t) == \A i \in DOMAIN t : t[i] \in WhiteSpace

\* script.js:53-56: what the handler does with a submit event
SubmitGateNoGuard(sending, value) ==
    IF JsTrim(value) = <<>> THEN "ignore" ELSE "accept"
SubmitGate(sending, value) ==
    IF sending THEN "drop"
    ELSE IF JsTrim(value) = <<>> THEN "ignore"
    ELSE "accept"

\* the UI calls of the handler that the fault model lets throw
SyncFaultSites == {"appendUser", "showTyping"}
SettleFaultSites == {"hideTypingTry", "appendReply", "hideTypingCatch",
                     "appendFallback", "enable", "focus"}
TxtUIError == <<"Error: UI step failed">>

\* script.js:51-81: a submit event with userInput.value = t, run up to the await.
\* F is the set of UI call sites that throw during this run.
HandleSubmit(t, F) ==
    LET gate    == SubmitGate(isSending, t)
        content == JsTrim(t)                                           \* :55
        cw1     == appendMessage(chatWindow, "user", content)          \* :66
        msgs1   == Append(messages, Msg("user", content))              \* :67
        pq1     == Append(userContext.pastQuestions, content)          \* :70
        name1   == detectAndStoreName(userContext.name, content)       \* :71
        msgs2   == trimConversation(msgs1, DefaultMaxMessages)         \* :74
        uc2     == [name |-> name1, pastQuestions |-> trimPastQuestions(pq1)]
    IN
    /\ nSubmitsIdle' = nSubmitsIdle + (IF ~ isSending /\ ~ IsBlank(t) THEN 1 ELSE 0)
    /\ UNCHANGED <<probeIn, probeOut>>
    /\ IF gate # "accept"
       THEN \* :53 / :56: return
            /\ inputValue' = t
            /\ lastEvent' = Event(IF gate = "drop" THEN "dropped" ELSE "ignored",
                                  Undefined, FALSE)
            /\ UNCHANGED <<isSending, userContext, messages, inputDisabled, sendDisabled,
                           inputFocused, chatWindow, pending, nCalls, nFailures>>
       ELSE \* :59-63
            /\ inputValue' = <<>>
            /\ inputFocused' = FALSE
            /\ inputDisabled' = TRUE
            /\ sendDisabled' = TRUE
            /\ isSending' = TRUE
            /\ UNCHANGED nFailures
            /\ IF "appendUser" \in F
               THEN \* :66 throws: the handler's promise rejects
                    /\ lastEvent' = Event("accepted", Undefined, TRUE)
                    /\ UNCHANGED <<userContext, messages, chatWindow, pending, nCalls>>
               ELSE /\ IF "showTyping" \in F
                       THEN \* :77 throws
                            /\ messages' = msgs2
                            /\ userContext' = uc2
                            /\ chatWindow' = cw1
                            /\ lastEvent' = Event("accepted", Undefined, TRUE)
                            /\ UNCHANGED <<pending, nCalls>>
                       ELSE \* :77, :81: the call is issued and the handler suspends
                            /\ messages' = stateAfterBuild(msgs2, uc2).messages
                            /\ userContext' = stateAfterBuild(msgs2, uc2).userContext
                            /\ chatWindow' = showTypingBubble(cw1)
                            /\ pending' = Append(pending,
                                   [payload |-> buildMessagesWithContext(msgs2, uc2)])
                            /\ nCalls' = nCalls + 1
                            /\ lastEvent' = Event("accepted", Undefined, FALSE)

RemoveAt(q, i) == SubSeq(q, 1, i - 1) \o SubSeq(q, i + 1, Len(q))

\* script.js:81-82: messages once the awaited call has returned or thrown (r)
messagesAfterSettleStoresError(msgs, r) ==
    Append(msgs, Msg("assistant", IF r.thrown THEN FALLBACK ELSE r.value))
messagesAfterSettle(msgs, r) ==
    IF r.thrown THEN msgs ELSE Append(msgs, Msg("assistant", r.value))

\* script.js:90-96: the finally block, on ui = [inputDisabled, sendDisabled,
\* inputFocused, isSending]; F: the UI call sites that throw
finallyBlockKeepsSending(ui, F) ==
    IF "enable" \in F THEN ui
    ELSE IF "focus" \in F
         THEN [ui EXCEPT !.inputDisabled = FALSE, !.sendDisabled = FALSE]
    ELSE [ui EXCEPT !.inputDisabled = FALSE, !.sendDisabled = FALSE,
                    !.inputFocused = TRUE]
finallyBlock(ui, F) ==
    IF "enable" \in F THEN ui                                          \* :92 throws
    ELSE IF "focus" \in F                                              \* :94 throws
         THEN [ui EXCEPT !.inputDisabled = FALSE, !.sendDisabled = FALSE]
    ELSE [inputDisabled |-> FALSE, sendDisabled |-> FALSE,
          inputFocused |-> TRUE, isSending |-> FALSE]

\* script.js:81-96: the continuation of the handler awaiting pending[i], when the
\* Worker call settles with response res.  F: the UI call sites that throw.
HandleSettle(i, res, F) ==
    LET r       == getOpenAIReply(res)
        \* the try block: does it end in the catch, with which error and window
        hideT   == ~ r.thrown /\ "hideTypingTry" \in F                 \* :84 throws
        appT    == ~ r.thrown /\ ~ hideT /\ "appendReply" \in F        \* :85 throws
        caught  == r.thrown \/ hideT \/ appT
        err     == IF r.thrown THEN r.value ELSE TxtUIError
        cwTry   == IF r.thrown \/ hideT THEN chatWindow
                   ELSE IF appT THEN hideTypingBubble(chatWindow)
                   ELSE appendMessage(hideTypingBubble(chatWindow), "ai", r.value)
        \* the catch block, :87-89
        hideC   == caught /\ "hideTypingCatch" \in F
        appC    == caught /\ ~ hideC /\ "appendFallback" \in F
        cwEnd   == IF ~ caught \/ hideC THEN cwTry
                   ELSE IF appC THEN hideTypingBubble(cwTry)
                   ELSE appendMessage(hideTypingBubble(cwTry), "ai", FALLBACK)
        ui      == finallyBlock([inputDisabled |-> inputDisabled,
                                 sendDisabled |-> sendDisabled,
                                 inputFocused |-> inputFocused,
                                 isSending |-> isSending], F)
    IN
    /\ pending' = RemoveAt(pending, i)
    /\ messages' = messagesAfterSettle(messages, r)
    /\ chatWindow' = cwEnd
    /\ inputDisabled' = ui.inputDisabled
    /\ sendDisabled' = ui.sendDisabled
    /\ inputFocused' = ui.inputFocused
    /\ isSending' = ui.isSending
    /\ nFailures' = nFailures + (IF r.thrown THEN 1 ELSE 0)
    /\ lastEvent' = Event(IF caught THEN "failure" ELSE "success",
                          IF caught THEN err ELSE Undefined,
                          hideC \/ appC \/ "enable" \in F \/ "focus" \in F)
    /\ UNCHANGED <<userContext, inputValue, nSubmitsIdle, nCalls, probeIn, probeOut>>

-----------------------------------------------------------------------------
(* Inputs *)

TxtDry == <<"d","r","y">>
TxtImAl == <<"i","m"," ","A","l">>
TxtIAmBo == <<"I"," ","a","m"," ","B","o">>
TxtAl == <<"A","l">>
TxtBo == <<"B","o">>
TxtTryX == <<"T","r","y"," ","X">>
TxtHello == <<"H","e","l","l","o">>
TxtTryProductX == <<"T","r","y"," ","P","r","o","d","u","c","t"," ","X">>
TxtBoom == <<"b","o","o","m">>

\* what the user may have typed when a submit event arrives
TxtBlank == <<" ", "\t", "\f", "U+00A0">>
TxtDryPadded == <<" ", "U+3000">> \o TxtDry \o <<"\n", "U+000B">>
Inputs == { <<>>, TxtBlank, TxtDryPadded, TxtImAl, TxtIAmBo }
LongInputs == { <<>>, TxtDry }

\* {choices:[{message:{content:"Try X"}}]}
ResChoices == Response(TRUE, TRUE, 200, TRUE, Undefined, TxtTryX, Undefined)
\* {reply:"Hello"}
ResReply == Response(TRUE, TRUE, 200, TRUE, Undefined, Undefined, TxtHello)
\* {foo:"bar"}
ResFoo == Response(TRUE, TRUE, 200, TRUE, Undefined, Undefined, Undefined)
\* 500 {error:"boom"}
Res500Error == Response(TRUE, FALSE, 500, TRUE, TxtBoom, Undefined, Undefined)
\* 500 {}
Res500Empty == Response(TRUE, FALSE, 500, TRUE, Undefined, Undefined, Undefined)
\* 502 with an HTML body
Res502Html == Response(TRUE, FALSE, 502, FALSE, Undefined, Undefined, Undefined)
\* fetch() rejects
ResNetError == Response(FALSE, FALSE, 0, FALSE, Undefined, Undefined, Undefined)

\* {choices:[{message:{content:"Try Product X"}}]}
ResTryProductX == Response(TRUE, TRUE, 200, TRUE, Undefined, TxtTryProductX, Undefined)
\* {choices:[{message:{content:""}}], reply:"Hello"}
ResEmptyContent == Response(TRUE, TRUE, 200, TRUE, Undefined, <<>>, TxtHello)

Responses == { ResChoices, ResReply, ResFoo, Res500Error, Res500Empty, Res502Html,
               ResNetError, ResTryProductX, ResEmptyContent }
LongResponses == { ResChoices, ResNetError }

-----------------------------------------------------------------------------
(* Spec: short sessions, every input and every response, the DOM calls succeed *)

Submit(t) ==
    /\ nSubmitsIdle < MaxSubmits /\ nCalls < MaxSubmits
    /\ HandleSubmit(t, {})

Settle(i, res) == HandleSettle(i, res, {})

Next ==
    \/ \E t \in Inputs : Submit(t)
    \/ \E i \in DOMAIN pending : \E res \in Responses : Settle(i, res)

Spec == Init /\ [][Next]_vars

\* SpecLive: Spec, where a Worker call that was issued settles
SettleSome == \E i \in DOMAIN pending : \E res \in Responses : Settle(i, res)

SpecLive == Init /\ [][Next]_vars /\ WF_vars(SettleSome)

-----------------------------------------------------------------------------
(* SpecLong: long sessions, which reach the trims of script.js:206-217 *)

LongSubmit(t) ==
    /\ nSubmitsIdle < MaxLongSubmits /\ nCalls < MaxLongSubmits
    /\ HandleSubmit(t, {})

LongSettle(i, res) ==
    /\ getOpenAIReply(res).thrown => nFailures < MaxLongFailures
    /\ HandleSettle(i, res, {})

NextLong ==
    \/ \E t \in LongInputs : LongSubmit(t)
    \/ \E i \in DOMAIN pending : \E res \in LongResponses : LongSettle(i, res)

SpecLong == Init /\ [][NextLong]_vars

-----------------------------------------------------------------------------
(* SpecUIFault: short sessions in which the DOM calls of the handler may throw *)

FaultySubmit(t, F) ==
    /\ nSubmitsIdle < MaxFaultSubmits /\ nCalls < MaxFaultSubmits
    /\ HandleSubmit(t, F)

FaultySettle(i, res, F) == HandleSettle(i, res, F)

NextUIFault ==
    \/ \E t \in LongInputs : \E F \in SUBSET SyncFaultSites : FaultySubmit(t, F)
    \/ \E i \in DOMAIN pending : \E res \in LongResponses :
          \E F \in SUBSET SettleFaultSites : FaultySettle(i, res, F)

SpecUIFault == Init /\ [][NextUIFault]_vars


-----------------------------------------------------------------------------
(* SpecTrim: trimConversation applied to arbitrary transcripts *)

\* longest transcript drawn, and largest maxMessages tried on it
MaxTrimLen == 5
MaxTrimParam == 4

TrimMessages == { Msg("system", BASE_SYSTEM_PROMPT), Msg("user", TxtDry),
                  Msg("assistant", TxtTryX) }

\* message i of a 45-message session: the prompt, then questions and answers
Transcript45 ==
    [ i \in 1 .. 45 |->
        IF i = 1 THEN Msg("system", BASE_SYSTEM_PROMPT)
        ELSE Msg(IF i % 2 = 0 THEN "user" ELSE "assistant", NatToText(i)) ]

TrimTranscripts ==
    UNION { [1 .. n -> TrimMessages] : n \in 0 .. MaxTrimLen } \cup { Transcript45 }

InitTrim ==
    /\ messages \in TrimTranscripts
    /\ isSending = FALSE
    /\ userContext = [name |-> Null, pastQuestions |-> <<>>]
    /\ inputValue = <<>>
    /\ inputDisabled = FALSE
    /\ sendDisabled = FALSE
    /\ inputFocused = FALSE
    /\ chatWindow = <<>>
    /\ pending = <<>>
    /\ lastEvent = Event("load", Undefined, FALSE)
    /\ nSubmitsIdle = 0
    /\ nCalls = 0
    /\ nFailures = 0
    /\ probeIn = <<>>
    /\ probeOut = <<>>

\* trimConversation(m) on the transcript, once
ApplyTrim(m) ==
    /\ probeIn = <<>>
    /\ probeIn' = << [t |-> messages, maxMessages |-> m] >>
    /\ messages' = trimConversation(messages, m)
    /\ probeOut' = << trimConversation(messages, m) >>
    /\ UNCHANGED <<isSending, userContext, inputValue, inputDisabled, sendDisabled,
                   inputFocused, chatWindow, pending, lastEvent, nSubmitsIdle, nCalls,
                   nFailures>>

NextTrim == \E m \in (1 .. MaxTrimParam) \cup {DefaultMaxMessages} : ApplyTrim(m)

SpecTrim == InitTrim /\ [][NextTrim]_vars


-----------------------------------------------------------------------------
(* SpecFn: the functions of the script applied to drawn arguments.  probeIn   *)
(* holds one record of arguments, tagged with the function; the action of     *)
(* that function puts what it returns into probeOut.                          *)

\* longest pastQuestions list drawn
MaxPastQuestions == 20
\* first question numbers tried (the list is n consecutive numbered questions)
MaxQuestionOffset == 2

\* n numbered questions, the first one numbered off + 1
NumberedQuestions(n, off) == [ i \in 1 .. n |-> <<"q">> \o NatToText(off + i) ]

PushArgs ==
    { [fn |-> "push", pq |-> NumberedQuestions(n, off), q |-> q] :
        n \in 0 .. MaxPastQuestions, off \in 0 .. MaxQuestionOffset,
        q \in { TxtDry, TxtIAmBo } }

TxtAna == <<"A","n","a">>
TxtRedLipstick == <<"r","e","d"," ","l","i","p","s","t","i","c","k">>
TxtDryScalp == <<"d","r","y"," ","s","c","a","l","p">>

ContextArgs ==
    { [fn |-> "context", name |-> n, pq |-> pq] :
        n \in { Null, <<>>, TxtAna, TxtAl },
        pq \in { <<>>, <<TxtRedLipstick, TxtDryScalp>>, <<TxtDry>>,
                 <<TxtDry, TxtImAl, TxtDry>> } }

TxtRenaeIntro == <<"H","i",","," ","I","'","m"," ","R","e","n","a","e"," ","a","n","d"," ","I"," ","h","a","v","e"," ","d","r","y"," ","s","k","i","n">>
TxtRenae == <<"R","e","n","a","e">>

\* "i am<U+00A0>Bo", "i am\fB<U+00F6>", "my name is I<U+00F1>aki",
\* "i am <U+00D7><U+00D7>", "I am <U+0178>o"
TxtIAmNbspBo == <<"i"," ","a","m","U+00A0","B","o">>
TxtIAmFfBoe == <<"i"," ","a","m","\f","B","U+00F6">>
TxtInakiIntro == <<"m","y"," ","n","a","m","e"," ","i","s"," ","I","U+00F1","a","k","i">>
TxtTimesIntro == <<"i"," ","a","m"," ","U+00D7","U+00D7">>
TxtYoIntro == <<"I"," ","a","m"," ","U+0178","o">>

NameArgs ==
    { [fn |-> "name", name |-> n, message |-> m] :
        n \in { Null, TxtAl },
        m \in { TxtRenaeIntro, TxtImAl, TxtIAmBo, TxtDry, TxtIAmNbspBo, TxtIAmFfBoe,
                TxtInakiIntro, TxtTimesIntro, TxtYoIntro } }

FnArgs == PushArgs \cup ContextArgs \cup NameArgs

InitFn ==
    /\ probeIn \in { <<a>> : a \in FnArgs }
    /\ probeOut = <<>>
    /\ isSending = FALSE
    /\ userContext = [name |-> Null, pastQuestions |-> <<>>]
    /\ messages = << Msg("system", BASE_SYSTEM_PROMPT) >>
    /\ inputValue = <<>>
    /\ inputDisabled = FALSE
    /\ sendDisabled = FALSE
    /\ inputFocused = FALSE
    /\ chatWindow = appendMessage(<<>>, "ai", GREETING)
    /\ pending = <<>>
    /\ lastEvent = Event("load", Undefined, FALSE)
    /\ nSubmitsIdle = 0
    /\ nCalls = 0
    /\ nFailures = 0

FnRest ==
    UNCHANGED <<isSending, userContext, messages, inputValue, inputDisabled, sendDisabled,
                inputFocused, chatWindow, pending, lastEvent, nSubmitsIdle, nCalls,
                nFailures, probeIn>>

\* script.js:70 and :214-216: the question is pushed, then the list is cut
ApplyPush ==
    /\ probeOut = <<>> /\ probeIn[1].fn = "push"
    /\ probeOut' = << trimPastQuestions(Append(probeIn[1].pq, probeIn[1].q)) >>
    /\ FnRest

\* script.js:156-166: contextBlock for a given userContext
ApplyContext ==
    /\ probeOut = <<>> /\ probeIn[1].fn = "context"
    /\ probeOut' = << contextBlock([name |-> probeIn[1].name,
                                    pastQuestions |-> probeIn[1].pq]) >>
    /\ FnRest

\* script.js:184-201: detectAndStoreName on a message, with a given stored name
ApplyName ==
    /\ probeOut = <<>> /\ probeIn[1].fn = "name"
    /\ probeOut' = << detectAndStoreName(probeIn[1].name, probeIn[1].message) >>
    /\ FnRest

NextFn ==
    \/ ApplyPush
    \/ ApplyContext
    \/ ApplyName

SpecFn == InitFn /\ [][NextFn]_vars

-----------------------------------------------------------------------------
(* Properties *)

\* the kinds of failure a Worker call can end in: transport error, non-success
\* status (with and without an error member, and with a body that is not JSON),
\* and a success status with neither accepted shape
FailureResponses == { ResNetError, Res500Error, Res500Empty, Res502Html, ResFoo }

\* what a step that is no part of the send lifecycle leaves alone
SessionUnchanged ==
    UNCHANGED <<isSending, userContext, messages, inputDisabled, sendDisabled,
                inputFocused, chatWindow, pending, nCalls>>

\* C1: in every reachable state the transcript is non-empty and its first
\* element is the base system prompt (role system).
C1_FirstIsSystem ==
    /\ Len(messages) >= 1
    /\ messages[1].role = "system"
    /\ messages[1].content = BASE_SYSTEM_PROMPT

\* C1 witness: a trim has dropped the oldest question and a call has failed
C1_Witness ==
    /\ Len(messages) > DefaultMaxMessages
    /\ messages[2].role = "assistant"
    /\ nFailures > 0

\* C2: a submit event that arrives while isSending is true changes nothing of
\* the session (transcript, context, UI, outstanding calls); so at most one
\* call is outstanding and the calls are as many as the submits that arrived
\* Idle with non-blank input.
C2_DropWhileSending ==
    /\ [][\A t \in Inputs :
             (isSending /\ Submit(t)) =>
                 (SessionUnchanged /\ inputValue' = t /\ nSubmitsIdle' = nSubmitsIdle)]_vars
    /\ [](Len(pending) <= 1 /\ nCalls = nSubmitsIdle)

\* C2 witness: a non-blank submit was dropped while a call was outstanding
C2_Witness ==
    /\ isSending
    /\ lastEvent.kind = "dropped"
    /\ inputValue = TxtImAl
    /\ Len(pending) = 1

\* C3: whenever isSending is true and the Worker call settles, the session
\* returns to Idle: isSending false and both controls enabled, whatever the
\* outcome of the call.
C3_ReturnsToIdle ==
    isSending ~> (~ isSending /\ ~ inputDisabled /\ ~ sendDisabled)

\* C3 witness: Idle again after a call that failed on the response shape
C3_Witness ==
    /\ ~ isSending /\ ~ inputDisabled /\ ~ sendDisabled
    /\ lastEvent.kind = "failure"
    /\ lastEvent.logged = TxtUnexpectedShape

\* C4: when no handler is running or suspended, isSending is false, even if a
\* UI call of the send lifecycle threw.
C4_NoStuckSending == (pending = <<>>) => ~ isSending

\* C5: a submit whose input is empty or white space only, arriving Idle,
\* appends nothing, leaves the context alone, keeps isSending false and the
\* controls enabled, and starts no call.
C5_BlankIgnored ==
    [][\A t \in Inputs :
          (~ isSending /\ IsBlank(t) /\ Submit(t)) =>
              (SessionUnchanged /\ ~ isSending' /\ ~ inputDisabled' /\ ~ sendDisabled')]_vars

\* C5 witness: a white-space-only submit was ignored in the middle of a session
C5_Witness ==
    /\ lastEvent.kind = "ignored"
    /\ inputValue = TxtBlank
    /\ Len(messages) > 1
    /\ ~ isSending

\* C6: once userContext.name holds a non-empty value no step changes it.
C6_NameWrittenOnce ==
    [][Truthy(userContext.name) => userContext.name' = userContext.name]_vars

\* C6 witness: the name is Al although a later question introduced Bo
C6_Witness ==
    /\ userContext.name = TxtAl
    /\ \E i \in DOMAIN userContext.pastQuestions : userContext.pastQuestions[i] = TxtIAmBo

\* C7: after the trim step of a submit the transcript holds at most
\* maxMessages (40) messages.
C7_CappedAtMax ==
    lastEvent.kind = "accepted" => Len(messages) <= DefaultMaxMessages

\* C8: trimConversation(maxMessages) leaves a transcript of at most maxMessages
\* messages unchanged, and turns a longer one, t, into t[0] followed by the
\* last maxMessages elements of t in order (maxMessages + 1 elements).
C8_TrimExact ==
    probeIn # <<>> =>
        LET t   == probeIn[1].t
            m   == probeIn[1].maxMessages
            out == probeOut[1]
        IN  /\ Len(t) <= m => out = t
            /\ Len(t) > m =>
                 /\ Len(out) = m + 1
                 /\ out[1] = t[1]
                 /\ \A k \in 1 .. m : out[k + 1] = t[Len(t) - m + k]

\* C8 witness: 45 messages trimmed with maxMessages = 40 give t[0], t[5..44]
C8_Witness ==
    /\ probeIn # <<>>
    /\ probeIn[1].t = Transcript45
    /\ probeIn[1].maxMessages = DefaultMaxMessages
    /\ Len(probeOut[1]) = 41
    /\ probeOut[1][2].content = NatToText(6)
    /\ probeOut[1][41].content = NatToText(45)

\* C9: in every reachable state exactly one message of the transcript has
\* role system, and it is the first.
C9_OneSystemMessage ==
    { i \in DOMAIN messages : messages[i].role = "system" } = {1}

\* C9 witness: a submit has just trimmed a transcript of 43 messages down
C9_Witness ==
    /\ lastEvent.kind = "accepted"
    /\ Len(messages) = DefaultMaxMessages + 1
    /\ nCalls > 21

\* C10: when a Worker call fails, the transcript stays as it was when the
\* request was issued (the payload without its context message), the context
\* is unchanged, and the UI gets the fallback bubble in place of the typing one.
C10_FailureLeavesTranscript ==
    [][\A i \in DOMAIN pending : \A res \in FailureResponses :
          Settle(i, res) =>
              /\ messages' = messages
              /\ messages' = <<pending[i].payload[1]>>
                             \o SubSeq(pending[i].payload, 3, Len(pending[i].payload))
              /\ userContext' = userContext
              /\ chatWindow' = appendMessage(hideTypingBubble(chatWindow), "ai", FALLBACK)]_vars

\* C10 witness: after a 500 the window ends with the fallback bubble and the
\* transcript with the question that was asked
C10_Witness ==
    /\ lastEvent.kind = "failure"
    /\ lastEvent.logged = TxtBoom
    /\ chatWindow[Len(chatWindow)].text = FALLBACK
    /\ messages[Len(messages)] = Msg("user", TxtIAmBo)


\* C11: after the context update of a submit pastQuestions has at most 20
\* entries: if the push makes 21, the list is cut to its 10 most recent entries
\* in order (the new question last); otherwise it is the old list with the
\* new question appended.
C11_PastQuestionsCut ==
    (probeOut # <<>> /\ probeIn[1].fn = "push") =>
        LET pushed == probeIn[1].pq \o << probeIn[1].q >>
            out    == probeOut[1]
        IN  /\ Len(out) <= 20
            /\ Len(pushed) <= 20 => out = pushed
            /\ Len(pushed) > 20 =>
                 /\ Len(out) = 10
                 /\ \A k \in 1 .. 10 : out[k] = pushed[Len(pushed) - 10 + k]

\* C11 witness: the 21st question cut the list q3..q22 down to q13..q22 + it
C11_Witness ==
    /\ probeOut # <<>> /\ probeIn[1].fn = "push"
    /\ Len(probeIn[1].pq) = 20
    /\ probeIn[1].pq[1] = <<"q", "3">>
    /\ probeOut[1][1] = <<"q", "1", "4">>
    /\ probeOut[1][10] = TxtIAmBo


\* a is a prefix of text s
IsPrefix(a, s) == Len(a) <= Len(s) /\ SubSeq(s, 1, Len(a)) = a

\* C12: every outbound payload is the base system message, then one system
\* message holding the context text, then the transcript after index 0 in
\* order: len(transcript) + 1 messages, exactly two of them of role system.
C12_PayloadShape ==
    \A i \in DOMAIN pending :
        LET p == pending[i].payload
        IN  /\ Len(p) = Len(messages) + 1
            /\ p[1] = Msg("system", BASE_SYSTEM_PROMPT)
            /\ p[2].role = "system" /\ IsPrefix(TxtContext, p[2].content)
            /\ \A k \in 2 .. Len(messages) : p[k + 1] = messages[k]
            /\ { k \in DOMAIN p : p[k].role = "system" } = {1, 2}

\* C12 witness: the payload of a call issued right after a trim (42 messages)
C12_Witness ==
    /\ Len(pending) = 1
    /\ Len(pending[1].payload) = DefaultMaxMessages + 2
    /\ pending[1].payload[3].role = "assistant"

\* C13: the context text is "Conversation context: " then the name sentence
\* (when a name is set) and the questions sentence (when there are past
\* questions), name first, one space between; it is "(none yet)" exactly
\* when there is neither.  Ana with red lipstick and dry scalp is the example.
C13_ContextText ==
    (probeOut # <<>> /\ probeIn[1].fn = "context") =>
        LET name  == probeIn[1].name
            pq    == probeIn[1].pq
            out   == probeOut[1]
            isSet == name # Null /\ name # <<>>
            nameS == TxtUsersName \o name \o <<".">>
            askS  == TxtPreviously \o Join(pq, <<";", " ">>) \o <<".">>
        IN  /\ (out = TxtContext \o TxtNoneYet) <=> (~ isSet /\ pq = <<>>)
            /\ (isSet /\ pq = <<>>) => out = TxtContext \o nameS
            /\ (~ isSet /\ pq # <<>>) => out = TxtContext \o askS
            /\ (isSet /\ pq # <<>>) => out = TxtContext \o nameS \o <<" ">> \o askS
            /\ (name = TxtAna /\ pq = <<TxtRedLipstick, TxtDryScalp>>) =>
                 out = <<"C","o","n","v","e","r","s","a","t","i","o","n"," ","c","o","n","t","e","x","t",":"," ","U","s","e","r","'","s"," ","n","a","m","e",":"," ","A","n","a","."," ","U","s","e","r"," ","p","r","e","v","i","o","u","s","l","y"," ","a","s","k","e","d"," ","a","b","o","u","t",":"," ","r","e","d"," ","l","i","p","s","t","i","c","k",";"," ","d","r","y"," ","s","c","a","l","p",".">>

\* C13 witness: the example of the specification has been computed
C13_Witness ==
    /\ probeOut # <<>> /\ probeIn[1].fn = "context"
    /\ probeIn[1].name = TxtAna
    /\ probeIn[1].pq = <<TxtRedLipstick, TxtDryScalp>>
    /\ Len(probeOut[1]) = 93

\* C14: building the payload writes neither the transcript nor the context:
\* after an accepted submit they are what push, name detection and trim left,
\* the payload's context message is not in the transcript, and no message of
\* the transcript ever holds a context text.
C14_BuildIsPure ==
    /\ [][\A t \in Inputs :
             (Submit(t) /\ Len(pending') > Len(pending)) =>
                 LET p == pending'[Len(pending')].payload
                 IN  /\ messages' = trimConversation(
                              Append(messages, Msg("user", JsTrim(t))), DefaultMaxMessages)
                     /\ Len(messages') = Len(p) - 1
                     /\ userContext'.name = detectAndStoreName(userContext.name, JsTrim(t))
                     /\ userContext'.pastQuestions =
                            trimPastQuestions(Append(userContext.pastQuestions, JsTrim(t)))
                     /\ \A k \in DOMAIN messages' : messages'[k] # p[2]]_vars
    /\ [](\A k \in DOMAIN messages : ~ IsPrefix(TxtContext, messages[k].content))

\* C14 witness: a third payload has been built in the session
C14_Witness ==
    /\ Len(pending) = 1
    /\ nCalls = 3
    /\ Len(messages) = Len(pending[1].payload) - 1
    /\ userContext.name = TxtBo


\* C15: a response with a non-success status makes the call fail with the
\* server's error string if the body has one, else with the HTTP status,
\* whatever the body is.
C15_ErrorCarriesStatus ==
    [][\A i \in DOMAIN pending : \A res \in Responses :
          (res.net /\ ~ res.ok /\ Settle(i, res)) =>
              /\ lastEvent'.kind = "failure"
              /\ lastEvent'.logged =
                    IF res.error # Undefined /\ res.error # <<>> THEN res.error
                    ELSE TxtHTTP \o NatToText(res.status)]_vars

\* the session after a call has returned text x: x is the new last message of
\* the transcript and the last bubble of the window
Replied(x) ==
    /\ lastEvent'.kind = "success"
    /\ messages' = Append(messages, Msg("assistant", x))
    /\ chatWindow'[Len(chatWindow')] = [cls |-> "ai", id |-> "", text |-> x]

\* the session after a call has failed on the response shape
ShapeFailed ==
    /\ lastEvent'.kind = "failure"
    /\ lastEvent'.logged = TxtUnexpectedShape
    /\ messages' = messages
    /\ chatWindow'[Len(chatWindow')] = [cls |-> "ai", id |-> "", text |-> FALLBACK]
    /\ ~ isSending'

\* C16 as stated: on a success status the reply is choices[0].message.content
\* when the body has that member, else reply when it has that one, else the
\* call fails with the unexpected-shape error.
C16_ReplyFromShapePresent ==
    [][\A i \in DOMAIN pending : \A res \in Responses :
          (res.net /\ res.ok /\ res.json /\ Settle(i, res)) =>
              IF res.content # Undefined THEN Replied(res.content)
              ELSE IF res.reply # Undefined THEN Replied(res.reply)
              ELSE ShapeFailed]_vars

\* C16 amended: on a success status with a JSON body the reply is
\* choices[0].message.content when that is a non-empty string, else reply when
\* that is a non-empty string, else the call fails with the unexpected-shape
\* error, the UI shows the fallback and isSending is false; "Try Product X"
\* is returned as it is.
C16_ReplyFromNonEmpty ==
    [][\A i \in DOMAIN pending : \A res \in Responses :
          (res.net /\ res.ok /\ res.json /\ Settle(i, res)) =>
              /\ IF res.content # Undefined /\ res.content # <<>> THEN Replied(res.content)
                 ELSE IF res.reply # Undefined /\ res.reply # <<>> THEN Replied(res.reply)
                 ELSE ShapeFailed
              /\ res = ResTryProductX => Replied(<<"T","r","y"," ","P","r","o","d","u","c","t"," ","X">>)
              /\ res = ResFoo => ShapeFailed]_vars

\* C16 witness: "Try Product X" is the last message of the transcript
C16_Witness ==
    /\ lastEvent.kind = "success"
    /\ messages[Len(messages)] = Msg("assistant", TxtTryProductX)
    /\ chatWindow[Len(chatWindow)].text = TxtTryProductX
    /\ ~ isSending

\* C17: with no name stored, "Hi, I'm Renae and I have dry skin" stores Renae.
C17_NameIsRenae ==
    (probeOut # <<>> /\ probeIn[1].fn = "name"
       /\ probeIn[1].name = Null /\ probeIn[1].message = TxtRenaeIntro) =>
        probeOut[1] = TxtRenae


\* a is a suffix of text s
IsSuffix(a, s) == Len(a) <= Len(s) /\ SubSeq(s, Len(s) - Len(a) + 1, Len(s)) = a

\* C18: while a call is outstanding the question that caused it is the last
\* message of the transcript and of the call's payload; when the call
\* succeeds the reply is appended right after that question and nothing else
\* is appended.
C18_ReplyFollowsQuestion ==
    /\ [](\A i \in DOMAIN pending :
             LET p == pending[i].payload
             IN  /\ messages[Len(messages)].role = "user"
                 /\ p[Len(p)] = messages[Len(messages)])
    /\ [][\A i \in DOMAIN pending : \A res \in Responses :
             (Settle(i, res) /\ lastEvent'.kind = "success") =>
                 /\ Len(messages') = Len(messages) + 1
                 /\ SubSeq(messages', 1, Len(messages)) = messages
                 /\ messages'[Len(messages')].role = "assistant"
                 /\ messages'[Len(messages)] = pending[i].payload[Len(pending[i].payload)]]_vars

\* C18 witness: a reply sits right after the question "I am Bo", which itself
\* follows a question that got no reply
C18_Witness ==
    /\ Len(messages) = 4
    /\ messages[2].role = "user"
    /\ messages[3] = Msg("user", TxtIAmBo)
    /\ messages[4] = Msg("assistant", TxtHello)

\* C19: the context message of every outstanding payload is built from the
\* context as updated by the submit that caused the call: its questions
\* sentence ends with the question just asked, it is never "(none yet)", and
\* it starts with the name sentence as soon as a name is stored, the name
\* found in that very question included.
C19_ContextReflectsSubmit ==
    \A i \in DOMAIN pending :
        LET p   == pending[i].payload
            ctx == p[2].content
            q   == p[Len(p)].content
        IN  /\ userContext.pastQuestions # <<>>
            /\ userContext.pastQuestions[Len(userContext.pastQuestions)] = q
            /\ ctx # TxtContext \o TxtNoneYet
            /\ \/ IsSuffix(TxtPreviously \o q \o <<".">>, ctx)
               \/ IsSuffix(<<";", " ">> \o q \o <<".">>, ctx)
            /\ (q = TxtImAl /\ Len(userContext.pastQuestions) = 1) =>
                   ctx = <<"C","o","n","v","e","r","s","a","t","i","o","n"," ","c","o","n","t","e","x","t",":"," ","U","s","e","r","'","s"," ","n","a","m","e",":"," ","A","l","."," ","U","s","e","r"," ","p","r","e","v","i","o","u","s","l","y"," ","a","s","k","e","d"," ","a","b","o","u","t",":"," ","i","m"," ","A","l",".">>
            /\ (userContext.name # Null /\ userContext.name # <<>>) =>
                   IsPrefix(TxtContext \o TxtUsersName \o userContext.name \o <<".", " ">>, ctx)

\* C19 witness: the first question, "im Al", is outstanding with its context
C19_Witness ==
    /\ Len(pending) = 1
    /\ nCalls = 1
    /\ userContext.name = TxtAl
    /\ userContext.pastQuestions = <<TxtImAl>>

\* C20: between handler steps the transcript has at most maxMessages + 2
\* messages, and so has every outbound payload.
C20_TranscriptBounded ==
    /\ Len(messages) <= DefaultMaxMessages + 2
    /\ \A i \in DOMAIN pending : Len(pending[i].payload) <= DefaultMaxMessages + 2

\* C20 witness: Idle with maxMessages + 2 messages after a reply to a trimmed
\* transcript
C20_Witness ==
    /\ ~ isSending
    /\ Len(messages) = DefaultMaxMessages + 2
    /\ lastEvent.kind = "success"


====
